---------------------------- MODULE Spec2Model ----------------------------
(***************************************************************************)
(* UCR campus power grid simulation (src/main.py).                         *)
(*                                                                         *)
(* The program builds one pandapower network (create_ucr_network), then    *)
(* the driver runs three scenarios on that one network object              *)
(* (run_simulation): Base Case, Heatwave Scenario, Feeder A Outage.        *)
(*                                                                         *)
(* Units.  The source works in floating point; the model keeps exact       *)
(* integers:                                                               *)
(*   voltages   in V        (69 kV = 69000, 12 kV = 12000, 0.48 kV = 480)  *)
(*   p_mw       in kW       (0.45 MW = 450)                                *)
(*   q_mvar     in kvar                                                    *)
(*   pf         in percent  (0.90 = 90)                                    *)
(*   scaling    in tenths   (1.0 = 10, 1.3 = 13)                           *)
(*   served p   in 100 W    (p_mw * scaling)                               *)
(* Element indices are positions in the element tables, counted from 1     *)
(* (pandapower counts from 0).                                             *)
(***************************************************************************)
EXTENDS Integers, Sequences, FiniteSets, TLC

VARIABLES
    input,          \* what get_ucr_building_data() returns
    pc,             \* position of the program
    net,            \* the pandapower network object (net / ucr_net)
    building_data,  \* create_ucr_network: local building_data
    fi,             \* position of the feeder loop in building_data
    bi,             \* position of the building loop in the feeder's list
    utility_bus,    \* create_ucr_network: local utility_bus
    campus_bus,     \* create_ucr_network: local campus_bus
    feeder_head,    \* create_ucr_network: local feeder_head
    feeder_line,    \* create_ucr_network: local feeder_line
    previous_bus,   \* create_ucr_network: local previous_bus
    q_mvar,         \* create_ucr_network: local q_mvar
    mv_node,        \* create_ucr_network: local mv_node
    lv_node,        \* create_ucr_network: local lv_node
    trafo_idx,      \* create_ucr_network: local trafo_idx
    scenario_name,  \* run_simulation: parameter scenario_name
    ret,            \* where run_simulation returns to in the driver
    idx,            \* driver: the index list of the switch lookup
    out,            \* the lines printed so far
    results         \* one record per power-flow call: what was solved and how it ended

vars == <<input, pc, net, building_data, fi, bi, utility_bus, campus_bus,
          feeder_head, feeder_line, previous_bus, q_mvar, mv_node, lv_node,
          trafo_idx, scenario_name, ret, idx, out, results>>

locals == <<fi, bi, utility_bus, campus_bus, feeder_head, feeder_line,
            previous_bus, q_mvar, mv_node, lv_node, trafo_idx>>

driver == <<scenario_name, ret, idx, out, results>>

(***************************************************************************)
(* The building catalog.                                                   *)
(***************************************************************************)
Bldg(b_name, p_mw, pf) == [b_name |-> b_name, p_mw |-> p_mw, pf |-> pf]

Feeder(feeder_name, buildings) ==
    [feeder_name |-> feeder_name, buildings |-> buildings]

\* get_ucr_building_data: a dict, iterated in insertion order.
UCRBuildingData ==
    << Feeder("Feeder_A",
          << Bldg("Bourns Hall", 450, 90),
             Bldg("Winston Chung Hall", 400, 90),
             Bldg("Physics 2000", 350, 92),
             Bldg("Materials Sci & Eng", 300, 90),
             Bldg("Multidisciplinary Research Bldg", 500, 88) >>),
       Feeder("Feeder_B",
          << Bldg("Spieth Hall", 300, 90),
             Bldg("Batchelor Hall", 350, 90),
             Bldg("Life Sciences", 250, 95),
             Bldg("School of Medicine Ed", 400, 90),
             Bldg("Genomics Building", 380, 89),
             Bldg("Greenhouse Operations", 150, 95) >>),
       Feeder("Feeder_C",
          << Bldg("Hinderaker Hall", 150, 95),
             Bldg("Rivera Library", 250, 92),
             Bldg("Orbach Science Library", 300, 92),
             Bldg("Highlander Union (HUB)", 350, 95),
             Bldg("Student Services Bldg", 150, 95),
             Bldg("Humanities & Social Sci", 200, 95),
             Bldg("Arts Building", 120, 95) >>),
       Feeder("Feeder_D",
          << Bldg("Aberdeen-Inverness", 250, 98),
             Bldg("Lothian Hall", 250, 98),
             Bldg("Pentland Hills", 200, 98),
             Bldg("Dundee Hall", 220, 98),
             Bldg("Glen Mor", 300, 98),
             Bldg("North District", 400, 98) >>) >>

(***************************************************************************)
(* Other construction inputs of the same shape (a feeder -> building list  *)
(* mapping), used by SpecInput: 1 to MaxFeeders feeders, each with 1 to    *)
(* MaxBuildings buildings, power factors drawn from InputPFs.              *)
(***************************************************************************)
MaxFeeders == 2

MaxBuildings == 2

InputFeederNames == <<"Feeder_A", "Feeder_X", "Feeder_Y">>

InputBuildingNames == <<"Hall 1", "Hall 2", "Hall 3">>

\* negative, zero, valid, exactly 1, above 1
InputPFs == {-50, 0, 90, 100, 120}

InputDemands == {300}

\* The building lists of length 1..n.
RECURSIVE BuildingLists(_)
BuildingLists(n) ==
    IF n = 0 THEN {}
    ELSE LET shorter == BuildingLists(n - 1)
             longest == IF n = 1 THEN { <<>> }
                        ELSE { s \in shorter : Len(s) = n - 1 }
         IN  shorter \cup
             { Append(l, Bldg(InputBuildingNames[Len(l) + 1], d, f)) :
                 l \in longest, d \in InputDemands, f \in InputPFs }

\* Feeders i..MaxFeeders of the name list, each present or absent.
RECURSIVE FeederLists(_)
FeederLists(i) ==
    IF i > MaxFeeders THEN { <<>> }
    ELSE LET rest == FeederLists(i + 1)
         IN  rest \cup
             { <<Feeder(InputFeederNames[i], bl)>> \o r :
                 bl \in BuildingLists(MaxBuildings), r \in rest }

Catalogs == {UCRBuildingData} \cup (FeederLists(1) \ { <<>> })

(***************************************************************************)
(* math.acos / math.tan, line 169: q_mvar = p_mw * tan(acos(pf)).          *)
(***************************************************************************)
\* The integer square root of n, sought between lo and hi (lo*lo <= n < hi*hi).
RECURSIVE IsqrtBetween(_, _, _)
IsqrtBetween(n, lo, hi) ==
    IF hi - lo <= 1 THEN lo
    ELSE LET mid == (lo + hi) \div 2
         IN  IF mid * mid <= n THEN IsqrtBetween(n, mid, hi)
             ELSE IsqrtBetween(n, lo, mid)

Isqrt(n) == IsqrtBetween(n, 0, 1001)

\* math.acos raises ValueError("math domain error") outside [-1, 1].
AcosRaises(pf) == pf < -100 \/ pf > 100

\* tan(pi/2) evaluates in floating point to 1.633e16, not to an error; the
\* model saturates it.
TanSaturated == 1000000

\* p_mw * tan(acos(pf)) in kvar, for pf in [-1, 1]: tan(acos(x)) = sqrt(1-x^2)/x,
\* negative for x < 0.
ReactivePower(p_mw, pf) ==
    IF pf = 0 THEN p_mw * TanSaturated
    ELSE LET mag == (p_mw * Isqrt((10000 - pf * pf) * 100)) \div
                    ((IF pf < 0 THEN -pf ELSE pf) * 10)
         IN  IF pf < 0 THEN -mag ELSE mag

(***************************************************************************)
(* The network object and the pp.create_* calls.                           *)
(***************************************************************************)
\* pp.create_empty_network()
EmptyNetwork ==
    [bus |-> <<>>, ext_grid |-> <<>>, line |-> <<>>, trafo |-> <<>>,
     switch |-> <<>>, load |-> <<>>,
     converged |-> FALSE, res_bus |-> <<>>, res_load |-> <<>>]

\* The index pp.create_<element> returns: the next free one.
NextIndex(table) == Len(table) + 1

DefaultScaling == 10

Scaling_1_3 == 13

Scaling_1_0 == 10

KV_69 == 69000

KV_12 == 12000

KV_0_48 == 480

WithBus(n, vn_kv, name) ==
    [n EXCEPT !.bus = Append(@, [vn_kv |-> vn_kv, name |-> name])]

WithExtGrid(n, bus, vm_pu) ==
    [n EXCEPT !.ext_grid = Append(@, [bus |-> bus, vm_pu |-> vm_pu])]

WithLine(n, from_bus, to_bus, name) ==
    [n EXCEPT !.line = Append(@, [from_bus |-> from_bus, to_bus |-> to_bus,
                                  name |-> name])]

WithTrafo(n, hv_bus, lv_bus, vn_hv_kv, vn_lv_kv, name) ==
    [n EXCEPT !.trafo = Append(@, [hv_bus |-> hv_bus, lv_bus |-> lv_bus,
                                   vn_hv_kv |-> vn_hv_kv, vn_lv_kv |-> vn_lv_kv,
                                   name |-> name])]

WithSwitch(n, bus, element, et, type, closed, name) ==
    [n EXCEPT !.switch = Append(@, [bus |-> bus, element |-> element, et |-> et,
                                    type |-> type, closed |-> closed,
                                    name |-> name])]

WithLoad(n, bus, p_mw, q, name) ==
    [n EXCEPT !.load = Append(@, [bus |-> bus, p_mw |-> p_mw, q_mvar |-> q,
                                  scaling |-> DefaultScaling, name |-> name])]

(***************************************************************************)
(* create_ucr_network, one action per statement.                           *)
(***************************************************************************)
\* line 95
CreateUtilityBus ==
    /\ pc = "utility_bus"
    /\ utility_bus' = NextIndex(net.bus)
    /\ net' = WithBus(net, KV_69, "RPU Grid")
    /\ pc' = "ext_grid"
    /\ UNCHANGED <<input, building_data, fi, bi, campus_bus, feeder_head,
                   feeder_line, previous_bus, q_mvar, mv_node, lv_node,
                   trafo_idx, driver>>

\* line 97
CreateExtGrid ==
    /\ pc = "ext_grid"
    /\ net' = WithExtGrid(net, utility_bus, 102)
    /\ pc' = "campus_bus"
    /\ UNCHANGED <<input, building_data, locals, driver>>

\* line 103
CreateCampusBus ==
    /\ pc = "campus_bus"
    /\ campus_bus' = NextIndex(net.bus)
    /\ net' = WithBus(net, KV_12, "Campus Main Bus")
    /\ pc' = "main_trafo"
    /\ UNCHANGED <<input, building_data, fi, bi, utility_bus, feeder_head,
                   feeder_line, previous_bus, q_mvar, mv_node, lv_node,
                   trafo_idx, driver>>

\* lines 108-120
CreateMainTrafo ==
    /\ pc = "main_trafo"
    /\ net' = WithTrafo(net, utility_bus, campus_bus, KV_69, KV_12,
                        "Main Substation Transformer")
    /\ pc' = "get_data"
    /\ UNCHANGED <<input, building_data, locals, driver>>

\* line 123
GetBuildingData ==
    /\ pc = "get_data"
    /\ building_data' = input
    /\ fi' = 0
    /\ pc' = "feeder_loop"
    /\ UNCHANGED <<input, net, bi, utility_bus, campus_bus, feeder_head,
                   feeder_line, previous_bus, q_mvar, mv_node, lv_node,
                   trafo_idx, driver>>

\* line 130: the next feeder, or (line 234) return net to the driver.
FeederLoop ==
    /\ pc = "feeder_loop"
    /\ IF fi < Len(building_data)
       THEN fi' = fi + 1 /\ pc' = "feeder_head"
       ELSE fi' = fi /\ pc' = "base_case"
    /\ UNCHANGED <<input, net, building_data, bi, utility_bus, campus_bus,
                   feeder_head, feeder_line, previous_bus, q_mvar, mv_node,
                   lv_node, trafo_idx, driver>>

feeder_name == building_data[fi].feeder_name

buildings == building_data[fi].buildings

\* line 132
CreateFeederHead ==
    /\ pc = "feeder_head"
    /\ feeder_head' = NextIndex(net.bus)
    /\ net' = WithBus(net, KV_12, feeder_name \o " Head")
    /\ pc' = "feeder_line"
    /\ UNCHANGED <<input, building_data, fi, bi, utility_bus, campus_bus,
                   feeder_line, previous_bus, q_mvar, mv_node, lv_node,
                   trafo_idx, driver>>

\* lines 136-146
CreateFeederLine ==
    /\ pc = "feeder_line"
    /\ feeder_line' = NextIndex(net.line)
    /\ net' = WithLine(net, campus_bus, feeder_head,
                       feeder_name \o " Feeder Line")
    /\ pc' = "feeder_switch"
    /\ UNCHANGED <<input, building_data, fi, bi, utility_bus, campus_bus,
                   feeder_head, previous_bus, q_mvar, mv_node, lv_node,
                   trafo_idx, driver>>

\* lines 150-161: the breaker, then previous_bus = feeder_head.
CreateFeederSwitch ==
    /\ pc = "feeder_switch"
    /\ net' = WithSwitch(net, campus_bus, feeder_line, "l", "CB", TRUE,
                         "CB " \o feeder_name)
    /\ previous_bus' = feeder_head
    /\ bi' = 0
    /\ pc' = "building_loop"
    /\ UNCHANGED <<input, building_data, fi, utility_bus, campus_bus,
                   feeder_head, feeder_line, q_mvar, mv_node, lv_node,
                   trafo_idx, driver>>

\* Mutant of BuildingLoop: the last building of each feeder is left out.
BuildingLoop_SkipsLast ==
    /\ pc = "building_loop"
    /\ IF bi < Len(buildings) - 1
       THEN bi' = bi + 1 /\ pc' = "q_mvar"
       ELSE bi' = bi /\ pc' = "feeder_loop"
    /\ UNCHANGED <<input, net, building_data, fi, utility_bus, campus_bus,
                   feeder_head, feeder_line, previous_bus, q_mvar, mv_node,
                   lv_node, trafo_idx, driver>>

\* line 166: the next building of this feeder, or back to the feeder loop.
BuildingLoop ==
    /\ pc = "building_loop"
    /\ IF bi < Len(buildings)
       THEN bi' = bi + 1 /\ pc' = "q_mvar"
       ELSE bi' = bi /\ pc' = "feeder_loop"
    /\ UNCHANGED <<input, net, building_data, fi, utility_bus, campus_bus,
                   feeder_head, feeder_line, previous_bus, q_mvar, mv_node,
                   lv_node, trafo_idx, driver>>

b_name == buildings[bi].b_name

p_mw == buildings[bi].p_mw

pf == buildings[bi].pf

\* line 169: math.acos raises ValueError outside [-1, 1]; nothing catches it,
\* so the program ends with a traceback before any scenario.
ComputeQ ==
    /\ pc = "q_mvar"
    /\ IF AcosRaises(pf)
       THEN q_mvar' = q_mvar /\ pc' = "crashed"
       ELSE q_mvar' = ReactivePower(p_mw, pf) /\ pc' = "mv_node"
    /\ UNCHANGED <<input, net, building_data, fi, bi, utility_bus, campus_bus,
                   feeder_head, feeder_line, previous_bus, mv_node, lv_node,
                   trafo_idx, driver>>

\* line 172
CreateMvNode ==
    /\ pc = "mv_node"
    /\ mv_node' = NextIndex(net.bus)
    /\ net' = WithBus(net, KV_12, "MV - " \o b_name)
    /\ pc' = "line_to"
    /\ UNCHANGED <<input, building_data, fi, bi, utility_bus, campus_bus,
                   feeder_head, feeder_line, previous_bus, q_mvar, lv_node,
                   trafo_idx, driver>>

\* Mutant of CreateLineTo: every building tapped from the campus main bus
\* instead of chained to the previous bus of its feeder.
CreateLineTo_FromCampus ==
    /\ pc = "line_to"
    /\ net' = WithLine(net, campus_bus, mv_node, "Line to " \o b_name)
    /\ pc' = "lv_node"
    /\ UNCHANGED <<input, building_data, locals, driver>>

\* lines 176-186
CreateLineTo ==
    /\ pc = "line_to"
    /\ net' = WithLine(net, previous_bus, mv_node, "Line to " \o b_name)
    /\ pc' = "lv_node"
    /\ UNCHANGED <<input, building_data, locals, driver>>

\* line 189
CreateLvNode ==
    /\ pc = "lv_node"
    /\ lv_node' = NextIndex(net.bus)
    /\ net' = WithBus(net, KV_0_48, "LV - " \o b_name)
    /\ pc' = "trafo"
    /\ UNCHANGED <<input, building_data, fi, bi, utility_bus, campus_bus,
                   feeder_head, feeder_line, previous_bus, q_mvar, mv_node,
                   trafo_idx, driver>>

\* Mutant of CreateBuildingTrafo: the high and low side buses swapped.
CreateBuildingTrafo_Swapped ==
    /\ pc = "trafo"
    /\ trafo_idx' = NextIndex(net.trafo)
    /\ net' = WithTrafo(net, lv_node, mv_node, KV_12, KV_0_48,
                        "Trafo " \o b_name)
    /\ pc' = "fuse"
    /\ UNCHANGED <<input, building_data, fi, bi, utility_bus, campus_bus,
                   feeder_head, feeder_line, previous_bus, q_mvar, mv_node,
                   lv_node, driver>>

\* lines 193-205
CreateBuildingTrafo ==
    /\ pc = "trafo"
    /\ trafo_idx' = NextIndex(net.trafo)
    /\ net' = WithTrafo(net, mv_node, lv_node, KV_12, KV_0_48,
                        "Trafo " \o b_name)
    /\ pc' = "fuse"
    /\ UNCHANGED <<input, building_data, fi, bi, utility_bus, campus_bus,
                   feeder_head, feeder_line, previous_bus, q_mvar, mv_node,
                   lv_node, driver>>

\* Mutant of CreateFuse: the fuse put on the line to the building instead of
\* on its transformer.
CreateFuse_OnLine ==
    /\ pc = "fuse"
    /\ net' = WithSwitch(net, mv_node, NextIndex(net.line) - 1, "l", "LBS", TRUE,
                         "Fuse " \o b_name)
    /\ pc' = "load"
    /\ UNCHANGED <<input, building_data, locals, driver>>

\* lines 209-217
CreateFuse ==
    /\ pc = "fuse"
    /\ net' = WithSwitch(net, mv_node, trafo_idx, "t", "LBS", TRUE,
                         "Fuse " \o b_name)
    /\ pc' = "load"
    /\ UNCHANGED <<input, building_data, locals, driver>>

\* lines 222-231: the load, then previous_bus = mv_node.
CreateLoad ==
    /\ pc = "load"
    /\ net' = WithLoad(net, lv_node, p_mw, q_mvar, b_name)
    /\ previous_bus' = mv_node
    /\ pc' = "building_loop"
    /\ UNCHANGED <<input, building_data, fi, bi, utility_bus, campus_bus,
                   feeder_head, feeder_line, q_mvar, mv_node, lv_node,
                   trafo_idx, driver>>

(***************************************************************************)
(* pp.runpp, line 256.  The solver is the pandapower library; the model    *)
(* keeps what run_simulation reads of it: whether the call raised, the     *)
(* converged flag, which buses carry a solved voltage and what each load   *)
(* is served.  Before solving, pandapower finds the buses connected to the *)
(* external grid through branches not opened by a switch; the others are   *)
(* taken out of the solve, their res_bus.vm_pu is NaN and the loads on     *)
(* them are served 0.                                                      *)
(***************************************************************************)
\* A branch carries no connection when a switch on it is open.
BranchClosed(n, et, i) ==
    \A s \in 1..Len(n.switch) :
        (n.switch[s].et = et /\ n.switch[s].element = i) => n.switch[s].closed

Edges(n) ==
    { <<n.line[i].from_bus, n.line[i].to_bus>> :
        i \in { j \in 1..Len(n.line) : BranchClosed(n, "l", j) } }
    \cup
    { <<n.trafo[i].hv_bus, n.trafo[i].lv_bus>> :
        i \in { j \in 1..Len(n.trafo) : BranchClosed(n, "t", j) } }

RECURSIVE Grow(_, _)
Grow(E, S) ==
    LET T == S \cup { e[2] : e \in { d \in E : d[1] \in S } }
               \cup { e[1] : e \in { d \in E : d[2] \in S } }
    IN  IF T = S THEN S ELSE Grow(E, T)

\* The buses reachable from an external grid over closed branches.
Energized(n) ==
    Grow(Edges(n), { n.ext_grid[i].bus : i \in 1..Len(n.ext_grid) })

\* res_bus: TRUE where vm_pu is a solved value, FALSE where it is NaN.
ResBus(n) == LET E == Energized(n) IN [b \in 1..Len(n.bus) |-> b \in E]

\* res_load.p_mw: the demand times the load's scaling, 0 on a bus out of the solve.
ResLoad(n) ==
    LET E == Energized(n)
    IN  [l \in 1..Len(n.load) |->
            IF n.load[l].bus \in E THEN n.load[l].p_mw * n.load[l].scaling ELSE 0]

Solved(n) == [n EXCEPT !.converged = TRUE, !.res_bus = ResBus(n),
                       !.res_load = ResLoad(n)]

\* A solve that raised or did not converge leaves only the reset result tables.
Unsolved(n) == [n EXCEPT !.converged = FALSE, !.res_bus = <<>>, !.res_load = <<>>]

Outcomes == {"converged", "not_converged", "exception"}

(***************************************************************************)
(* run_simulation.                                                         *)
(***************************************************************************)
Line(kind, value, over) ==
    [kind |-> kind, scenario |-> scenario_name, value |-> value, over |-> over]

Result(outcome, total, over) ==
    [scenario |-> scenario_name, outcome |-> outcome, total |-> total, over |-> over]

RECURSIVE SumTo(_, _)
SumTo(f, n) == IF n = 0 THEN 0 ELSE f[n] + SumTo(f, n - 1)

\* Series.sum()
Sum(f) == SumTo(f, Len(f))

\* f"{x:.2f}" of a power given in 100 W: hundredths of a MW, ties to even.
Fmt2(x) ==
    LET q == x \div 100
        r == x % 100
    IN  IF r > 50 \/ (r = 50 /\ q % 2 = 1) THEN q + 1 ELSE q

\* Series.min() / .max() skip NaN: the buses the voltage range is taken over.
VoltageRangeOver(n) == { b \in 1..Len(n.res_bus) : n.res_bus[b] }

\* Entering run_simulation: line 251 prints the header.
Call(name, return_to) ==
    /\ scenario_name' = name
    /\ ret' = return_to
    /\ out' = Append(out, [kind |-> "header", scenario |-> name, value |-> 0,
                           over |-> {}])
    /\ pc' = "runpp"
    /\ UNCHANGED <<input, net, building_data, locals, idx, results>>

\* Mutant of SimRunpp: no try/except around the power-flow call, so an
\* exception ends the program.
SimRunpp_Propagates ==
    /\ pc = "runpp"
    /\ \E outcome \in Outcomes :
          \/ /\ outcome = "exception"
             /\ net' = Unsolved(net)
             /\ pc' = "crashed"
          \/ /\ outcome # "exception"
             /\ net' = IF outcome = "converged" THEN Solved(net) ELSE Unsolved(net)
             /\ pc' = "report"
    /\ UNCHANGED <<input, building_data, locals, driver>>

\* lines 253-259
SimRunpp ==
    /\ pc = "runpp"
    /\ \E outcome \in Outcomes :
          \/ /\ outcome = "exception"
             /\ net' = Unsolved(net)
             /\ out' = Append(out, Line("failed", 0, {}))
             /\ results' = Append(results, Result("exception", 0, {}))
             /\ pc' = ret
          \/ /\ outcome # "exception"
             /\ net' = IF outcome = "converged" THEN Solved(net) ELSE Unsolved(net)
             /\ pc' = "report"
             /\ UNCHANGED <<out, results>>
    /\ UNCHANGED <<input, building_data, locals, scenario_name, ret, idx>>

\* lines 262-271
SimReport ==
    /\ pc = "report"
    /\ IF net.converged
       THEN LET total == Sum(net.res_load)
                over == VoltageRangeOver(net)
            IN  /\ out' = out \o << Line("converged", 0, {}),
                                    Line("total", Fmt2(total), {}),
                                    Line("vrange", 0, over) >>
                /\ results' = Append(results, Result("converged", total, over))
       ELSE /\ out' = Append(out, Line("not_converged", 0, {}))
            /\ results' = Append(results, Result("not_converged", 0, {}))
    /\ pc' = ret
    /\ UNCHANGED <<input, net, building_data, locals, scenario_name, ret, idx>>

(***************************************************************************)
(* The driver, lines 280-302.                                              *)
(***************************************************************************)
\* net.load["scaling"] = k
WithScaling(n, k) ==
    [n EXCEPT !.load = [l \in 1..Len(n.load) |-> [n.load[l] EXCEPT !.scaling = k]]]

\* The positions of the rows of a table whose name is the given one, in order.
RECURSIVE IndexOfName(_, _, _)
IndexOfName(table, name, i) ==
    IF i > Len(table) THEN <<>>
    ELSE (IF table[i].name = name THEN <<i>> ELSE <<>>)
         \o IndexOfName(table, name, i + 1)

\* line 284
RunBaseCase ==
    /\ pc = "base_case"
    /\ Call("Base Case", "heatwave_scaling")

\* Mutant of SetHeatwaveScaling: only the first load is scaled.
SetHeatwaveScaling_FirstLoadOnly ==
    /\ pc = "heatwave_scaling"
    /\ net' = [net EXCEPT !.load[1].scaling = Scaling_1_3]
    /\ pc' = "heatwave"
    /\ UNCHANGED <<input, building_data, locals, driver>>

\* line 289
SetHeatwaveScaling ==
    /\ pc = "heatwave_scaling"
    /\ net' = WithScaling(net, Scaling_1_3)
    /\ pc' = "heatwave"
    /\ UNCHANGED <<input, building_data, locals, driver>>

\* line 290
RunHeatwave ==
    /\ pc = "heatwave"
    /\ Call("Heatwave Scenario", "reset_scaling")

\* Mutant of ResetScaling: the reset of line 293 left out.
ResetScaling_Skipped ==
    /\ pc = "reset_scaling"
    /\ pc' = "lookup"
    /\ UNCHANGED <<input, net, building_data, locals, driver>>

\* line 293
ResetScaling ==
    /\ pc = "reset_scaling"
    /\ net' = WithScaling(net, Scaling_1_0)
    /\ pc' = "lookup"
    /\ UNCHANGED <<input, building_data, locals, driver>>

\* lines 298-299: with no match the driver ends here.
LookupSwitch ==
    /\ pc = "lookup"
    /\ idx' = IndexOfName(net.switch, "CB Feeder_A", 1)
    /\ pc' = IF Len(idx') > 0 THEN "open_breaker" ELSE "done"
    /\ UNCHANGED <<input, net, building_data, locals, scenario_name, ret, out,
                   results>>

\* Mutant of OpenBreaker: the row after the one found is opened.
OpenBreaker_WrongRow ==
    /\ pc = "open_breaker"
    /\ net' = [net EXCEPT !.switch[idx[1] + 1].closed = FALSE]
    /\ pc' = "outage"
    /\ UNCHANGED <<input, building_data, locals, driver>>

\* line 301
OpenBreaker ==
    /\ pc = "open_breaker"
    /\ net' = [net EXCEPT !.switch[idx[1]].closed = FALSE]
    /\ pc' = "outage"
    /\ UNCHANGED <<input, building_data, locals, driver>>

\* line 302
RunOutage ==
    /\ pc = "outage"
    /\ Call("Feeder A Outage", "done")

(***************************************************************************)
(* Specifications.  Spec is the program as written; SpecInput runs the     *)
(* same program on each construction input of Catalogs.                    *)
(***************************************************************************)
Start ==
    /\ pc = "utility_bus"
    /\ net = EmptyNetwork
    /\ building_data = <<>>
    /\ fi = 0 /\ bi = 0
    /\ utility_bus = 0 /\ campus_bus = 0 /\ feeder_head = 0 /\ feeder_line = 0
    /\ previous_bus = 0 /\ q_mvar = 0 /\ mv_node = 0 /\ lv_node = 0
    /\ trafo_idx = 0
    /\ scenario_name = "" /\ ret = "" /\ idx = <<>>
    /\ out = <<>> /\ results = <<>>

Init == input = UCRBuildingData /\ Start

InitInput == input \in Catalogs /\ Start

Next ==
    \/ CreateUtilityBus \/ CreateExtGrid \/ CreateCampusBus \/ CreateMainTrafo
    \/ GetBuildingData \/ FeederLoop \/ CreateFeederHead \/ CreateFeederLine
    \/ CreateFeederSwitch \/ BuildingLoop \/ ComputeQ \/ CreateMvNode
    \/ CreateLineTo \/ CreateLvNode \/ CreateBuildingTrafo \/ CreateFuse
    \/ CreateLoad
    \/ RunBaseCase \/ SimRunpp \/ SimReport \/ SetHeatwaveScaling
    \/ RunHeatwave \/ ResetScaling \/ LookupSwitch \/ OpenBreaker \/ RunOutage

Spec == Init /\ [][Next]_vars

SpecInput == InitInput /\ [][Next]_vars

(***************************************************************************)
(* Vocabulary of the properties.                                           *)
(***************************************************************************)
Range(f) == { f[i] : i \in DOMAIN f }

BusesNamed(n, names) == { b \in 1..Len(n.bus) : n.bus[b].name \in names }

\* The building list the input gives a feeder (empty when it has no such feeder).
RECURSIVE BuildingsOfFrom(_, _)
BuildingsOfFrom(f, i) ==
    IF i > Len(input) THEN <<>>
    ELSE IF input[i].feeder_name = f THEN input[i].buildings
    ELSE BuildingsOfFrom(f, i + 1)

BuildingsOf(f) == BuildingsOfFrom(f, 1)

\* All building tuples of the input, feeder after feeder.
RECURSIVE AllBuildingsFrom(_)
AllBuildingsFrom(i) ==
    IF i > Len(input) THEN <<>>
    ELSE input[i].buildings \o AllBuildingsFrom(i + 1)

AllBuildings == AllBuildingsFrom(1)

RECURSIVE DemandOf(_)
DemandOf(bl) == IF bl = <<>> THEN 0 ELSE Head(bl).p_mw + DemandOf(Tail(bl))

\* A feeder's sub-tree: its head, and the MV and LV bus of each of its buildings.
SubtreeNames(f) ==
    {f \o " Head"}
    \cup { "MV - " \o b.b_name : b \in Range(BuildingsOf(f)) }
    \cup { "LV - " \o b.b_name : b \in Range(BuildingsOf(f)) }

SubtreeBuses(n, f) == BusesNamed(n, SubtreeNames(f))

AllClosed(n) == \A s \in 1..Len(n.switch) : n.switch[s].closed

UniformScaling(n, k) == \A l \in 1..Len(n.load) : n.load[l].scaling = k

ResultsOf(name, outcome) ==
    { r \in Range(results) : r.scenario = name /\ r.outcome = outcome }

ScenarioNames == {"Base Case", "Heatwave Scenario", "Feeder A Outage"}

Constructing ==
    pc \in {"utility_bus", "ext_grid", "campus_bus", "main_trafo", "get_data",
            "feeder_loop", "feeder_head", "feeder_line", "feeder_switch",
            "building_loop", "q_mvar", "mv_node", "line_to", "lv_node", "trafo",
            "fuse", "load"}

\* The positions of the driver and of run_simulation; each has a next step.
InDriver ==
    pc \in {"base_case", "runpp", "report", "heatwave_scaling", "heatwave",
            "reset_scaling", "lookup", "open_breaker", "outage"}

(***************************************************************************)
(* C1.  Once 'CB Feeder_A' is open and the network is solved, every bus of *)
(* Feeder A's sub-tree (the head, the 5 MV and the 5 LV buses) is          *)
(* unreachable from the source bus, carries no solved voltage, and is      *)
(* outside the buses the reported voltage range is taken over.             *)
(***************************************************************************)
C1_OutageDeenergizesFeederA ==
    /\ (pc = "report" /\ scenario_name = "Feeder A Outage" /\ net.converged) =>
          LET sub == SubtreeBuses(net, "Feeder_A")
          IN  /\ Cardinality(sub) = 1 + 2 * Len(BuildingsOf("Feeder_A"))
              /\ \A s \in 1..Len(net.switch) :
                    net.switch[s].closed <=> net.switch[s].name # "CB Feeder_A"
              /\ sub \cap Energized(net) = {}
              /\ \A b \in sub : ~net.res_bus[b]
              /\ sub \cap VoltageRangeOver(net) = {}
    /\ \A r \in ResultsOf("Feeder A Outage", "converged") :
          /\ r.over \cap SubtreeBuses(net, "Feeder_A") = {}
          /\ r.over # {}
    /\ \A i \in 1..Len(out) :
          (out[i].kind = "vrange" /\ out[i].scenario = "Feeder A Outage") =>
              out[i].over \cap SubtreeBuses(net, "Feeder_A") = {}

C1_Witness ==
    /\ pc = "report" /\ scenario_name = "Feeder A Outage" /\ net.converged
    /\ Cardinality(SubtreeBuses(net, "Feeder_A")) = 11
    /\ ~net.switch[idx[1]].closed

(***************************************************************************)
(* C2.  At the moment a scenario is solved, the load scalings and switch   *)
(* states are the baseline (scaling 1.0, all switches closed) except for   *)
(* that scenario's own perturbation: scaling 1.3 for the Heatwave only,    *)
(* 'CB Feeder_A' open for the outage only, whatever the earlier outcomes.  *)
(***************************************************************************)
C2_NoResidualPerturbation ==
    pc = "runpp" =>
        /\ scenario_name \in ScenarioNames
        /\ scenario_name = "Base Case" =>
               UniformScaling(net, Scaling_1_0) /\ AllClosed(net)
        /\ scenario_name = "Heatwave Scenario" =>
               UniformScaling(net, Scaling_1_3) /\ AllClosed(net)
        /\ scenario_name = "Feeder A Outage" =>
               /\ UniformScaling(net, Scaling_1_0)
               /\ \A s \in 1..Len(net.switch) :
                     net.switch[s].closed <=> net.switch[s].name # "CB Feeder_A"

C2_Witness ==
    /\ pc = "runpp" /\ scenario_name = "Feeder A Outage"
    /\ Len(net.load) = 24
    /\ Len(results) = 2
    /\ results[1].outcome = "exception"
    /\ results[2].outcome = "not_converged"

(***************************************************************************)
(* C3.  When the run ends, each of the three scenarios has printed its     *)
(* header exactly once, directly followed by its result (converged, did    *)
(* not converge, or the failure report): no scenario is skipped silently,  *)
(* also when the lookup of 'CB Feeder_A' finds no switch.                  *)
(***************************************************************************)
C3_EveryScenarioLabeled ==
    pc = "done" =>
        \A name \in ScenarioNames :
            /\ Cardinality({ i \in 1..Len(out) :
                    out[i].kind = "header" /\ out[i].scenario = name }) = 1
            /\ \A i \in 1..Len(out) :
                  (out[i].kind = "header" /\ out[i].scenario = name) =>
                      /\ i < Len(out)
                      /\ out[i + 1].scenario = name
                      /\ out[i + 1].kind \in {"converged", "not_converged", "failed"}

(***************************************************************************)
(* C4.  A solver failure (an exception of the power-flow call, or no       *)
(* convergence) ends only that scenario: the program never ends by a       *)
(* crash, run_simulation returns to the statement after its call, a later  *)
(* scenario is solved with its own perturbation applied, and at the end    *)
(* all three scenarios have been run, in order, whatever their outcomes.   *)
(***************************************************************************)
C4_SolverFailureIsScoped ==
    /\ pc # "crashed"
    /\ Constructing \/ InDriver \/ pc = "done"
    /\ pc \in {"runpp", "report"} =>
          ret = CASE scenario_name = "Base Case" -> "heatwave_scaling"
                  [] scenario_name = "Heatwave Scenario" -> "reset_scaling"
                  [] scenario_name = "Feeder A Outage" -> "done"
    /\ pc = "open_breaker" => Len(idx) > 0
    /\ (pc = "runpp" /\ \E i \in 1..Len(results) : results[i].outcome # "converged") =>
          /\ scenario_name = "Heatwave Scenario" => UniformScaling(net, Scaling_1_3)
          /\ scenario_name = "Feeder A Outage" =>
                \E s \in 1..Len(net.switch) :
                    net.switch[s].name = "CB Feeder_A" /\ ~net.switch[s].closed
    /\ pc = "done" =>
          /\ Len(results) = 3
          /\ results[1].scenario = "Base Case"
          /\ results[2].scenario = "Heatwave Scenario"
          /\ results[3].scenario = "Feeder A Outage"

C4_Witness ==
    /\ pc = "done"
    /\ Len(results) = 3
    /\ results[1].outcome = "exception"
    /\ results[2].outcome = "not_converged"
    /\ results[3].outcome = "converged"

(***************************************************************************)
(* C5.  The total served with 'CB Feeder_A' open (scaling 1.0) is lower    *)
(* than the Base Case total by at least the demand of Feeder A's           *)
(* buildings: its 5 loads contribute nothing to the outage total.          *)
(***************************************************************************)
C5_OutageShedsFeederA ==
    /\ \A b \in ResultsOf("Base Case", "converged") :
          \A o \in ResultsOf("Feeder A Outage", "converged") :
              b.total - o.total >= DemandOf(BuildingsOf("Feeder_A")) * Scaling_1_0
    /\ (pc = "report" /\ scenario_name = "Feeder A Outage" /\ net.converged) =>
          \A l \in 1..Len(net.load) :
              net.load[l].name \in { b.b_name : b \in Range(BuildingsOf("Feeder_A")) }
                  => net.res_load[l] = 0

C5_Witness ==
    /\ pc = "done"
    /\ ResultsOf("Base Case", "converged") # {}
    /\ ResultsOf("Feeder A Outage", "converged") # {}
    /\ DemandOf(BuildingsOf("Feeder_A")) = 2000

(***************************************************************************)
(* C6.  With every load's scaling set to 1.3 and all switches closed, the  *)
(* total served of a converged solve is 1.3 times the total at scaling 1.0.*)
(***************************************************************************)
C6_TotalScalesWithK ==
    /\ \A b \in ResultsOf("Base Case", "converged") :
          \A h \in ResultsOf("Heatwave Scenario", "converged") :
              h.total * Scaling_1_0 = b.total * Scaling_1_3
    /\ (pc = "report" /\ net.converged /\ AllClosed(net)) =>
          \A k \in {Scaling_1_0, Scaling_1_3} :
              UniformScaling(net, k) =>
                  Sum(net.res_load) = k * DemandOf(AllBuildings)

C6_Witness ==
    /\ pc = "reset_scaling"
    /\ ResultsOf("Base Case", "converged") # {}
    /\ \E h \in ResultsOf("Heatwave Scenario", "converged") : h.total = 90610

C8_BadPowerFactorRejected ==
    (\E b \in Range(AllBuildings) : b.pf <= 0 \/ b.pf > 100) =>
        /\ Constructing \/ pc = "crashed"
        /\ out = <<>>

(***************************************************************************)
(* C9.  At every point of construction and in the finished network: both   *)
(* terminal buses of every line and transformer exist; each transformer's  *)
(* rated voltages are the nominal voltages of its terminal buses (69/12 kV *)
(* for the main transformer between the utility and the campus main bus,   *)
(* 12/0.48 kV for a building transformer between its MV and LV bus); and   *)
(* every switch sits on a terminal bus of the element it governs.          *)
(***************************************************************************)
C9_BranchesWellFormed ==
    LET Buses == 1..Len(net.bus)
    IN  /\ \A i \in 1..Len(net.line) :
              /\ net.line[i].from_bus \in Buses
              /\ net.line[i].to_bus \in Buses
        /\ \A i \in 1..Len(net.trafo) :
              LET t == net.trafo[i]
              IN  /\ t.hv_bus \in Buses
                  /\ t.lv_bus \in Buses
                  /\ t.vn_hv_kv = net.bus[t.hv_bus].vn_kv
                  /\ t.vn_lv_kv = net.bus[t.lv_bus].vn_kv
                  /\ IF i = 1
                     THEN /\ t.vn_hv_kv = KV_69 /\ t.vn_lv_kv = KV_12
                          /\ net.bus[t.hv_bus].name = "RPU Grid"
                          /\ net.bus[t.lv_bus].name = "Campus Main Bus"
                     ELSE /\ t.vn_hv_kv = KV_12 /\ t.vn_lv_kv = KV_0_48
                          /\ \E b \in Range(AllBuildings) :
                                /\ t.name = "Trafo " \o b.b_name
                                /\ net.bus[t.hv_bus].name = "MV - " \o b.b_name
                                /\ net.bus[t.lv_bus].name = "LV - " \o b.b_name
        /\ \A s \in 1..Len(net.switch) :
              LET sw == net.switch[s]
              IN  /\ sw.et \in {"l", "t"}
                  /\ sw.et = "l" =>
                        /\ sw.element \in 1..Len(net.line)
                        /\ sw.bus \in {net.line[sw.element].from_bus,
                                        net.line[sw.element].to_bus}
                  /\ sw.et = "t" =>
                        /\ sw.element \in 1..Len(net.trafo)
                        /\ sw.bus \in {net.trafo[sw.element].hv_bus,
                                        net.trafo[sw.element].lv_bus}

C9_Witness ==
    /\ pc = "base_case"
    /\ Len(net.bus) = 54
    /\ Len(net.line) = 28
    /\ Len(net.trafo) = 25
    /\ Len(net.switch) = 28

(***************************************************************************)
(* C10.  In the built network with all switches closed, opening any single *)
(* switch de-energizes exactly the buses behind it: 'CB <feeder>' that     *)
(* feeder's head, MV and LV buses and nothing else; 'Fuse <building>' only *)
(* that building's LV bus, the buildings chained after it staying          *)
(* energized.  With no switch open every bus is energized.                 *)
(***************************************************************************)
WithOpen(n, s) == [n EXCEPT !.switch[s].closed = FALSE]

DeEnergized(n) == (1..Len(n.bus)) \ Energized(n)

BehindSwitch(n, s) ==
    IF n.switch[s].type = "CB"
    THEN UNION { SubtreeBuses(n, input[f].feeder_name) :
                   f \in { g \in 1..Len(input) :
                             n.switch[s].name = "CB " \o input[g].feeder_name } }
    ELSE BusesNamed(n, { "LV - " \o b.b_name :
                           b \in { c \in Range(AllBuildings) :
                                     n.switch[s].name = "Fuse " \o c.b_name } })

C10_SingleSwitchIsolation ==
    (pc = "base_case") =>
        /\ AllClosed(net)
        /\ DeEnergized(net) = {}
        /\ \A s \in 1..Len(net.switch) :
              /\ DeEnergized(WithOpen(net, s)) = BehindSwitch(net, s)
              /\ BehindSwitch(net, s) # {}
              /\ net.switch[s].type = "LBS" =>
                    Cardinality(BehindSwitch(net, s)) = 1

C10_Witness ==
    /\ pc = "base_case"
    /\ Len(net.switch) = 28
    /\ \E s \in 1..Len(net.switch) :
          /\ net.switch[s].name = "Fuse Bourns Hall"
          /\ DeEnergized(WithOpen(net, s)) = BusesNamed(net, {"LV - Bourns Hall"})
    /\ \E s \in 1..Len(net.switch) :
          /\ net.switch[s].name = "CB Feeder_C"
          /\ Cardinality(DeEnergized(WithOpen(net, s))) = 15

=============================================================================
